---- MODULE Spec2Model ----
(***************************************************************************)
(* Model of aws_inventory/formatter.py: the HTML report rendered by        *)
(* format_html (Python) and the filter engine embedded in the report as    *)
(* JavaScript (filterResources, updateDashboard, toggleDetails, ...).      *)
(* Spec is the page in the browser; SpecHistory is the same page with the  *)
(* user's manual expansions recorded; SpecScenario is the page of a report *)
(* of two records; SpecTags is the page of reports whose tags hold "|" or  *)
(* "="; SpecLive is the page under search edits and selections with the    *)
(* timeouts running when due; SpecCalls holds single calls of              *)
(* highlightMatches, clearHighlights, format_output, format_html and       *)
(* format_csv.                                                             *)
(*                                                                         *)
(* Strings are sequences of one-character strings, so that substring       *)
(* search, lower-casing, escaping and sorting are computed, not assumed.   *)
(***************************************************************************)
EXTENDS Integers, Sequences, FiniteSets, TLC

VARIABLES
    resources,        \* data['resources'], the input of format_html
    doc,              \* the rendered <tr> rows (not details-row), document order
    searchBox,        \* #searchBox.value
    serviceFilter,    \* #serviceFilter.value
    regionFilter,     \* #regionFilter.value
    tagFilter,        \* #tagFilter.value
    debounceTimer,    \* TRUE while the timer debounceTimer names is pending
    pendingTimers,    \* the number of timeouts set by debouncedFilter and not yet run
    rowState,         \* per row: classes and dataset flags of the row and its details-row
    sectionState,     \* per service section: classes, icon, count label
    options,          \* the option values of the three filter selects
    dashboard,        \* stat cards and the two Top charts
    emitted,          \* what the last handler handed to the browser (download, print)
    manual,           \* history: the rows the user opened by a click and has not closed
    userExpanded,     \* history: the sections the user expanded and has not collapsed
    call,             \* a call of a function of the module: its name and arguments
    result            \* what the call has produced so far

vars == <<resources, doc, searchBox, serviceFilter, regionFilter, tagFilter,
          debounceTimer, pendingTimers, rowState, sectionState, options, dashboard,
          emitted, manual, userExpanded, call, result>>

----------------------------------------------------------------------------
(* Bounds of the model *)

\* longest resource list given to format_html
MaxRecords == 2

\* longest text given to highlightMatches, and longest search term
MaxText == 3
MaxTerm == 2

\* longest resource list given to a formatter called on its own
MaxInventory == 7

\* most timeouts pending at once: keeps the model finite should
\* debouncedFilter fail to cancel the timeout it replaces
MaxPending == 2

----------------------------------------------------------------------------
(* Characters and strings *)

\* the characters that occur in the model, in code point order
Alphabet ==
    <<"\t", " ", "\"", "&", "-", "/", "0", "1", "2", "3", ";", "<", "=", ">",
      "A", "B", "C", "D", "E", "F", "G", "H", "I", "J", "K", "L", "M",
      "N", "O", "P", "Q", "R", "S", "T", "U", "V", "W", "X", "Y", "Z",
      "a", "b", "c", "d", "e", "f", "g", "h", "i", "j", "k", "l", "m",
      "n", "o", "p", "q", "r", "s", "t", "u", "v", "w", "x", "y", "z",
      "|", "U+0130", "U+0307">>

\* LATIN CAPITAL LETTER I WITH DOT ABOVE and COMBINING DOT ABOVE, characters
\* written here by their code points
DottedCapitalI == "U+0130"
CombiningDot == "U+0307"

\* the code point order of the characters, as a table
CodeTable ==
    [c \in {Alphabet[i] : i \in 1..Len(Alphabet)} |->
        CHOOSE i \in 1..Len(Alphabet) : Alphabet[i] = c]

CharCode(c) == CodeTable[c]

\* position of "A" and of "a" in Alphabet, and the number of letters
FirstUpper == CharCode("A")
FirstLower == CharCode("a")
Letters == CharCode("Z") - CharCode("A") + 1

\* str.lower() / String.prototype.toLowerCase, per character
LowerTable ==
    [c \in DOMAIN CodeTable |->
        LET n == CodeTable[c]
        IN  IF n >= FirstUpper /\ n < FirstUpper + Letters
            THEN Alphabet[n - FirstUpper + FirstLower]
            ELSE c]

LowerChar(c) == LowerTable[c]

\* str.upper() / String.prototype.toUpperCase, per character
UpperTable ==
    [c \in DOMAIN CodeTable |->
        LET n == CodeTable[c]
        IN  IF n >= FirstLower /\ n < FirstLower + Letters
            THEN Alphabet[n - FirstLower + FirstUpper]
            ELSE c]

UpperChar(c) == UpperTable[c]

ToUpper(s) == [i \in 1..Len(s) |-> UpperChar(s[i])]

\* String.prototype.includes
Includes(hay, needle) ==
    \E i \in 0..(Len(hay) - Len(needle)) :
        SubSeq(hay, i + 1, i + Len(needle)) = needle

\* code point order of two strings (Python sorted on str)
StrLess(a, b) ==
    \/ /\ Len(a) < Len(b)
       /\ SubSeq(b, 1, Len(a)) = a
    \/ \E i \in 1..Len(a) :
          /\ i <= Len(b)
          /\ SubSeq(a, 1, i - 1) = SubSeq(b, 1, i - 1)
          /\ CharCode(a[i]) < CharCode(b[i])

RECURSIVE Concat(_)
\* ''.join(parts)
Concat(parts) ==
    IF parts = <<>> THEN <<>> ELSE Head(parts) \o Concat(Tail(parts))

\* the lower case of one character: U+0130 is the one character whose lower
\* case is two characters, "i" and U+0307
LowerSeq(c) == IF c = DottedCapitalI THEN <<"i", CombiningDot>> ELSE <<LowerChar(c)>>

\* str.lower() / String.prototype.toLowerCase
ToLower(s) ==
    IF \A i \in 1..Len(s) : s[i] # DottedCapitalI
    THEN [i \in 1..Len(s) |-> LowerChar(s[i])]
    ELSE Concat([i \in 1..Len(s) |-> LowerSeq(s[i])])

RECURSIVE Join(_, _)
\* sep.join(parts)
Join(sep, parts) ==
    IF parts = <<>> THEN <<>>
    ELSE IF Len(parts) = 1 THEN parts[1]
    ELSE parts[1] \o sep \o Join(sep, Tail(parts))

RECURSIVE Split(_, _)
\* String.prototype.split(sep) for a one-character separator
Split(s, sep) ==
    IF \E i \in 1..Len(s) : s[i] = sep
    THEN LET i == CHOOSE j \in 1..Len(s) :
                     /\ s[j] = sep
                     /\ \A k \in 1..(j - 1) : s[k] # sep
         IN  <<SubSeq(s, 1, i - 1)>> \o Split(SubSeq(s, i + 1, Len(s)), sep)
    ELSE <<s>>

Range(f) == {f[i] : i \in DOMAIN f}

\* esc(): the four HTML replacements of format_html, per character
EscChar(c) ==
    CASE c = "&"  -> <<"&", "a", "m", "p", ";">>
      [] c = "<"  -> <<"&", "l", "t", ";">>
      [] c = ">"  -> <<"&", "g", "t", ";">>
      [] c = "\"" -> <<"&", "q", "u", "o", "t", ";">>
      [] OTHER    -> <<c>>

Esc(s) == Concat([i \in 1..Len(s) |-> EscChar(s[i])])

\* the character references esc() writes, and the characters they stand for
References ==
    << <<<<"&", "a", "m", "p", ";">>, "&">>,
       <<<<"&", "l", "t", ";">>, "<">>,
       <<<<"&", "g", "t", ";">>, ">">>,
       <<<<"&", "q", "u", "o", "t", ";">>, "\"">> >>

RECURSIVE HtmlDecode(_)
\* the browser's decoding of the character references esc() writes
HtmlDecode(s) ==
    IF \A i \in 1..Len(s) : s[i] # "&" THEN s
    ELSE LET amp == CHOOSE i \in 1..Len(s) :
                       s[i] = "&" /\ \A j \in 1..(i - 1) : s[j] # "&"
             rest == SubSeq(s, amp, Len(s))
             refs == {k \in 1..Len(References) :
                         /\ Len(rest) >= Len(References[k][1])
                         /\ SubSeq(rest, 1, Len(References[k][1])) = References[k][1]}
         IN  IF refs = {}
             THEN SubSeq(s, 1, amp) \o HtmlDecode(Tail(rest))
             ELSE LET k == CHOOSE x \in refs : TRUE
                  IN  SubSeq(s, 1, amp - 1) \o <<References[k][2]>>
                          \o HtmlDecode(SubSeq(rest, Len(References[k][1]) + 1, Len(rest)))

\* an attribute or text written through esc() and read back from the DOM
Rendered(s) == HtmlDecode(Esc(s))

----------------------------------------------------------------------------
(* Resource records: the input of the formatters *)

\* a dictionary entry that is missing, None, or a string
Absent == [kind |-> "absent", s |-> <<>>]
Null == [kind |-> "null", s |-> <<>>]
Str(x) == [kind |-> "str", s |-> x]

\* a detail value: a string or a boolean
DStr(x) == [kind |-> "str", s |-> x, b |-> FALSE]
DBool(x) == [kind |-> "bool", s |-> <<>>, b |-> x]

\* str(r.get(key, default)): None prints as 'None'
PyStr(field, default) ==
    CASE field.kind = "absent" -> default
      [] field.kind = "null"   -> <<"N", "o", "n", "e">>
      [] OTHER                 -> field.s

\* r.get(key, '') or fallback: a missing, None or empty value is falsy
OrElse(field, fallback) ==
    IF field.kind = "str" /\ field.s # <<>> THEN field.s ELSE fallback

\* esc(r.get(key, '')): esc(None) is ''
EscGet(field) == IF field.kind = "str" THEN Esc(field.s) ELSE <<>>

\* str(v) of a detail value
PyStrValue(v) ==
    IF v.kind = "bool"
    THEN IF v.b THEN <<"T", "r", "u", "e">> ELSE <<"F", "a", "l", "s", "e">>
    ELSE v.s

global == <<"g", "l", "o", "b", "a", "l">>
unknown == <<"u", "n", "k", "n", "o", "w", "n">>
DEFAULT == <<"D", "E", "F", "A", "U", "L", "T">>

\* svc = r.get('service', 'unknown')
ServiceOf(r) == PyStr(r.service, unknown)

\* reg = r.get('region', 'global') or 'global'
RegionOf(r) == OrElse(r.region, global)

\* rt = f"{r.get('service', '')}/{r.get('type', '')}"
TypeKeyOf(r) == PyStr(r.service, <<>>) \o <<"/">> \o PyStr(r.type, <<>>)

----------------------------------------------------------------------------
(* Ordered dictionaries, sorting and the Top charts *)

RECURSIVE Distinct(_)
\* the keys of a dict filled in this order (first-seen order)
Distinct(keys) ==
    IF keys = <<>> THEN <<>>
    ELSE LET init == Distinct(SubSeq(keys, 1, Len(keys) - 1))
             last == keys[Len(keys)]
         IN  IF last \in Range(init) THEN init ELSE Append(init, last)

\* counts[key] += 1 over a list of keys: the entries, in insertion order
CountBy(keys) ==
    LET ks == Distinct(keys)
    IN  [i \in 1..Len(ks) |->
            [key |-> ks[i],
             count |-> Cardinality({j \in 1..Len(keys) : keys[j] = ks[i]})]]

RemoveAt(seq, i) == SubSeq(seq, 1, i - 1) \o SubSeq(seq, i + 1, Len(seq))

RECURSIVE SortedStrings(_)
\* sorted(d.keys()) for a set of strings
SortedStrings(S) ==
    IF S = {} THEN <<>>
    ELSE LET m == CHOOSE x \in S : \A y \in S \ {x} : StrLess(x, y)
         IN  <<m>> \o SortedStrings(S \ {m})

RECURSIVE SortByCountDesc(_)
\* a stable sort by descending count: sorted(..., reverse=True) in Python,
\* Array.prototype.sort((a, b) => b[1] - a[1]) in JavaScript
SortByCountDesc(entries) ==
    IF entries = <<>> THEN <<>>
    ELSE LET i == CHOOSE j \in 1..Len(entries) :
                     /\ \A k \in 1..Len(entries) : entries[k].count <= entries[j].count
                     /\ \A k \in 1..(j - 1) : entries[k].count < entries[j].count
         IN  <<entries[i]>> \o SortByCountDesc(RemoveAt(entries, i))

\* the [:5] and slice(0, 5) of the Top charts
TopN == 5

Take(seq, n) == SubSeq(seq, 1, IF Len(seq) < n THEN Len(seq) ELSE n)

Min(a, b) == IF a < b THEN a ELSE b
Max(a, b) == IF a > b THEN a ELSE b

\* min(100, count*100 // max(1, total))
PyBarWidth(count, total) == Min(100, (count * 100) \div Max(1, total))

\* a bar width taken over the resources of the report as loaded
JsBarWidthOfLoaded(count, total) ==
    Min(100, (2 * count * 100 + Max(1, Len(resources))) \div (2 * Max(1, Len(resources))))

\* Math.min(100, Math.round(count * 100 / Math.max(1, total)))
JsBarWidth(count, total) ==
    Min(100, (2 * count * 100 + Max(1, total)) \div (2 * Max(1, total)))

\* the stat-bar elements format_html writes for one chart; the services
\* chart labels a bar esc(s.upper()), the regions chart esc(reg)
PyChart(entries, total, upper) ==
    LET top == Take(SortByCountDesc(entries), TopN)
    IN  [i \in 1..Len(top) |->
            [label |-> Rendered(IF upper THEN ToUpper(top[i].key) ELSE top[i].key),
             width |-> PyBarWidth(top[i].count, total),
             value |-> top[i].count]]

\* the stat-bar elements updateDashboard writes into one chart through
\* innerHTML; the label is not escaped
JsChart(entries, total, upper) ==
    LET top == Take(SortByCountDesc(entries), TopN)
    IN  [i \in 1..Len(top) |->
            [label |-> HtmlDecode(IF upper THEN ToUpper(top[i].key) ELSE top[i].key),
             width |-> JsBarWidth(top[i].count, total),
             value |-> top[i].count]]

----------------------------------------------------------------------------
(* format_html: the rendered document *)

\* services[svc], as indices into the resource list, in list order
ServiceGroup(res, svc) ==
    SelectSeq([i \in 1..Len(res) |-> i], LAMBDA i : ServiceOf(res[i]) = svc)

\* sorted(services.keys())
SortedServices(res) == SortedStrings({ServiceOf(res[i]) : i \in 1..Len(res)})

\* c if c >= ' ' else ' '
StripControl(s) ==
    [i \in 1..Len(s) |-> IF CharCode(s[i]) >= CharCode(" ") THEN s[i] ELSE " "]

\* ' '.join(str(v) for v in details.values()).lower(), control characters blanked
DetailText(r) ==
    StripControl(ToLower(Join(<<" ">>,
        [i \in 1..Len(r.details) |-> PyStrValue(r.details[i][2])])))

\* '|'.join(f"{esc(k)}={esc(v)}" for k, v in tags.items())
TagsData(r) ==
    Join(<<"|">>,
        [i \in 1..Len(r.tags) |-> Esc(r.tags[i][1]) \o <<"=">> \o Esc(r.tags[i][2])])

\* the text of the detail-value element format_detail_value writes
DetailValueText(v) ==
    IF v.kind = "bool"
    THEN IF v.b THEN <<"Y", "e", "s">> ELSE <<"N", "o">>
    ELSE Rendered(v.s)

\* the main <tr> of one resource, as the browser sees it: dataset attributes
\* and the text nodes of its first three cells and of its details panel
RenderRow(res, i, service_name) ==
    LET r == res[i]
    IN  [res        |-> i,
         service    |-> Rendered(service_name),
         region     |-> Rendered(RegionOf(r)),
         name       |-> Rendered(ToLower(PyStr(r.name, <<>>))),
         id         |-> Rendered(ToLower(PyStr(r.id, <<>>))),
         tags       |-> HtmlDecode(TagsData(r)),
         hasDetails |-> r.details # <<>>,
         details    |-> IF r.details # <<>> THEN Rendered(DetailText(r)) ELSE <<>>,
         cells      |-> << <<HtmlDecode(EscGet(r.type))>>
                              \o (IF r.is_default THEN <<DEFAULT>> ELSE <<>>),
                           <<Rendered(OrElse(r.name, PyStr(r.id, <<>>)))>>,
                           <<Rendered(OrElse(r.arn, PyStr(r.id, <<>>)))>> >>,
         values     |-> [k \in 1..Len(r.details) |-> DetailValueText(r.details[k][2])]]

\* service_sections: for each service in sorted order, the rows of its resources
RenderRows(res) ==
    LET svcs == SortedServices(res)
    IN  Concat([s \in 1..Len(svcs) |->
            LET grp == ServiceGroup(res, svcs[s])
            IN  [k \in 1..Len(grp) |-> RenderRow(res, grp[k], svcs[s])]])

\* the rows inside one service-section, in document order
SectionRows(rows, svc) == {i \in 1..Len(rows) : rows[i].service = svc}

\* the option values of the three filter selects, '' (All ...) included
ServiceOptions(res) ==
    {<<>>} \cup {Rendered(ServiceOf(res[i])) : i \in 1..Len(res)}
RegionOptions(res) ==
    {<<>>} \cup {Rendered(RegionOf(res[i])) : i \in 1..Len(res)}
TagOptions(res) ==
    {<<>>} \cup UNION {
        {Rendered(res[i].tags[k][1]) \o <<"=">> \o Rendered(res[i].tags[k][2]) :
            k \in 1..Len(res[i].tags)} : i \in 1..Len(res)}

----------------------------------------------------------------------------
(* format_html: the aggregation of the resource list *)

\* services: the groups in order of first appearance, each with the indices
\* of its resources in list order
Services(res) ==
    LET keys == Distinct([i \in 1..Len(res) |-> ServiceOf(res[i])])
    IN  [k \in 1..Len(keys) |->
            [key |-> keys[k], members |-> ServiceGroup(res, keys[k])]]

\* a region count that leaves out the resources without a region
RegionsOfPresent(res) ==
    LET present == SelectSeq(res, LAMBDA r : r.region.kind = "str" /\ r.region.s # <<>>)
    IN  CountBy([i \in 1..Len(present) |-> RegionOf(present[i])])

\* regions: regions[reg] += 1 for every resource
Regions(res) == CountBy([i \in 1..Len(res) |-> RegionOf(res[i])])

\* resource_types: resource_types[rt] = resource_types.get(rt, 0) + 1
ResourceTypes(res) == CountBy([i \in 1..Len(res) |-> TypeKeyOf(res[i])])

\* the (key, value) pairs of tags.items(), over all resources in list order
TagItems(res) == Concat([i \in 1..Len(res) |-> res[i].tags])

\* all_tags: for each tag key, in order of first appearance, the set of the
\* values seen with it
AllTags(res) ==
    LET items == TagItems(res)
        keys == Distinct([p \in 1..Len(items) |-> items[p][1]])
    IN  [k \in 1..Len(keys) |->
            [key    |-> keys[k],
             values |-> {items[p][2] : p \in {q \in 1..Len(items) : items[q][1] = keys[k]}}]]

\* the <option> of one tag pair: its key, its value and its value attribute
TagOption(k, v) ==
    [key |-> k, value |-> v, option |-> Rendered(k) \o <<"=">> \o Rendered(v)]

\* tag options written as the pairs come, one for every tag of every resource
TagOptionListAsSeen(res) ==
    LET items == TagItems(res)
    IN  [p \in 1..Len(items) |-> TagOption(items[p][1], items[p][2])]

\* tag_options: for k in sorted(all_tags.keys()): for v in sorted(all_tags[k])
TagOptionList(res) ==
    LET all_tags == AllTags(res)
        keys == SortedStrings({all_tags[k].key : k \in 1..Len(all_tags)})
        ValuesOf(key) == all_tags[CHOOSE k \in 1..Len(all_tags) : all_tags[k].key = key].values
    IN  Concat([k \in 1..Len(keys) |->
            LET vs == SortedStrings(ValuesOf(keys[k]))
            IN  [j \in 1..Len(vs) |-> TagOption(keys[k], vs[j])]])

----------------------------------------------------------------------------
(* The report's script: highlighting *)

\* whether highlightMatches(element, term, selector) leaves <mark> elements:
\* some text node under the selected nodes contains the term, compared in
\* lower case
HighlightMatches(textNodes, term) ==
    /\ term # <<>>
    /\ \E n \in 1..Len(textNodes) : Includes(ToLower(textNodes[n]), ToLower(term))

\* a text node, and a <mark> element with its textContent
TextNode(t) == [mark |-> FALSE, text |-> t]
MarkNode(t) == [mark |-> TRUE, text |-> t]

\* String.prototype.substring(a, b) for 0 <= a <= b: both ends are clamped
\* to the length of the string
Substring(t, a, b) == SubSeq(t, Min(a, Len(t)) + 1, Min(b, Len(t)))

\* String.prototype.indexOf(term, from): the first index at or after from
\* where term occurs, or -1
IndexOf(t, term, from) ==
    LET at == {i \in from..(Len(t) - Len(term)) : SubSeq(t, i + 1, i + Len(term)) = term}
    IN  IF at = {} THEN -1 ELSE CHOOSE i \in at : \A j \in at : i <= j

RECURSIVE MarkFrom(_, _, _, _)
\* the loop of highlightMatches over one text node, from lastIdx on: the
\* nodes appended to the fragment
MarkFrom(text, lower, term, lastIdx) ==
    LET idx == IndexOf(lower, ToLower(term), lastIdx)
    IN  IF idx = -1
        THEN IF lastIdx < Len(text)
             THEN <<TextNode(Substring(text, lastIdx, Len(text)))>>
             ELSE <<>>
        ELSE (IF idx > lastIdx THEN <<TextNode(Substring(text, lastIdx, idx))>> ELSE <<>>)
             \o <<MarkNode(Substring(text, idx, idx + Len(term)))>>
             \o MarkFrom(text, lower, term, idx + Len(term))

\* what highlightMatches puts in the place of one text node: the node itself
\* when the term is not found in it
MarkTextNode(text, term) ==
    IF IndexOf(ToLower(text), ToLower(term), 0) = -1
    THEN <<TextNode(text)>>
    ELSE MarkFrom(text, ToLower(text), term, 0)

RECURSIVE Normalize(_)
\* Node.normalize(): empty text nodes are removed and adjacent text nodes
\* are joined
Normalize(nodes) ==
    IF nodes = <<>> THEN <<>>
    ELSE IF ~nodes[1].mark /\ nodes[1].text = <<>> THEN Normalize(Tail(nodes))
    ELSE IF Len(nodes) >= 2 /\ ~nodes[1].mark /\ ~nodes[2].mark
    THEN Normalize(<<TextNode(nodes[1].text \o nodes[2].text)>> \o SubSeq(nodes, 3, Len(nodes)))
    ELSE <<nodes[1]>> \o Normalize(Tail(nodes))

\* every <mark> replaced by a text node of its textContent
Unmarked(nodes) == [k \in 1..Len(nodes) |-> TextNode(nodes[k].text)]

\* a clearHighlights that does not normalize the parent
ClearHighlightsUnjoined(nodes) == Unmarked(nodes)

\* clearHighlights(element) on the child nodes of one parent: each <mark> is
\* replaced and the parent normalized; nothing happens without a <mark>
ClearHighlights(nodes) ==
    IF \A k \in 1..Len(nodes) : ~nodes[k].mark
    THEN nodes
    ELSE Normalize(Unmarked(nodes))

\* highlightMatches(element, term, selector) on the child nodes of one
\* selected node
HighlightNodes(nodes, term) ==
    LET cleared == ClearHighlights(nodes)
    IN  IF term = <<>> THEN cleared
        ELSE Concat([k \in 1..Len(cleared) |-> MarkTextNode(cleared[k].text, term)])

\* the text nodes under td:nth-child(-n+3) of a row
RowTextNodes(row) == row.cells[1] \o row.cells[2] \o row.cells[3]

----------------------------------------------------------------------------
(* The report's script: filterResources and updateDashboard *)

\* matchService = !service || rowService === service
MatchService(row, service) == service = <<>> \/ row.service = service

\* a region test that forgets the unset filter
MatchRegionWithoutUnset(row, region) == row.region = region

\* matchRegion = !region || rowRegion === region
MatchRegion(row, region) == region = <<>> \/ row.region = region

\* a search test that does not look into the detail text
MatchSearchWithoutDetails(row, search) ==
    \/ search = <<>>
    \/ Includes(row.name, search)
    \/ Includes(row.id, search)

\* a search test that looks into the tags of the row as well
MatchSearchWithTags(row, search) ==
    \/ search = <<>>
    \/ Includes(row.name, search)
    \/ Includes(row.id, search)
    \/ Includes(row.details, search)
    \/ Includes(ToLower(row.tags), search)

\* matchSearch = !search || rowName.includes(search) || rowId.includes(search)
\*                       || detailText.includes(search)
MatchSearch(row, search) ==
    \/ search = <<>>
    \/ Includes(row.name, search)
    \/ Includes(row.id, search)
    \/ Includes(row.details, search)

\* matchTag = !tag || rowTags.split('|').includes(tag)
MatchTag(row, tag) == tag = <<>> \/ tag \in Range(Split(row.tags, "|"))

\* a detail match that a match in the name or the id suppresses
MatchedInDetailsNotInName(row, search) ==
    /\ search # <<>>
    /\ Includes(row.details, search)
    /\ ~Includes(row.name, search)
    /\ ~Includes(row.id, search)

\* matchedInDetails = search && detailText.includes(search)
MatchedInDetails(row, search) == search # <<>> /\ Includes(row.details, search)

\* a row loop that hides a row and leaves its details-row displayed
FilterRowKeepingDetails(row, st, search, service, region, tag) ==
    IF MatchService(row, service) /\ MatchRegion(row, region)
           /\ MatchSearch(row, search) /\ MatchTag(row, tag)
    THEN [st EXCEPT !.hidden = FALSE, !.detailHidden = FALSE]
    ELSE [st EXCEPT !.hidden = TRUE, !.marks = FALSE, !.autoExpanded = FALSE]

\* the body of the row loop of filterResources for one row
FilterRow(row, st, search, service, region, tag) ==
    LET matchService == MatchService(row, service)
        matchRegion == MatchRegion(row, region)
        matchSearch == MatchSearch(row, search)
        matchTag == MatchTag(row, tag)
        matchedInDetails == MatchedInDetails(row, search)
    IN  IF matchService /\ matchRegion /\ matchSearch /\ matchTag
        THEN LET shown == [st EXCEPT !.hidden = FALSE,
                                     !.marks = HighlightMatches(RowTextNodes(row), search)]
             IN  IF ~row.hasDetails THEN shown
                 ELSE IF matchedInDetails
                 THEN [shown EXCEPT !.detailHidden = FALSE,
                                    !.detailCollapsed = FALSE,
                                    !.expanded = TRUE,
                                    !.autoExpanded = TRUE,
                                    !.detailMarks = HighlightMatches(row.values, search)]
                 ELSE IF st.autoExpanded
                 THEN [shown EXCEPT !.detailHidden = FALSE,
                                    !.detailCollapsed = TRUE,
                                    !.expanded = FALSE,
                                    !.autoExpanded = FALSE,
                                    !.detailMarks = FALSE]
                 ELSE [shown EXCEPT !.detailHidden = FALSE]
        ELSE LET gone == [st EXCEPT !.hidden = TRUE,
                                    !.marks = FALSE,
                                    !.autoExpanded = FALSE]
             IN  IF ~row.hasDetails THEN gone
                 ELSE [gone EXCEPT !.detailHidden = TRUE, !.detailMarks = FALSE]

\* the service-count label: visibleCount + ' resource' + (visibleCount !== 1 ? 's' : '')
CountLabel(n) == [n |-> n, plural |-> n # 1]

\* the body of the section loop of filterResources for one section
FilterSection(rows, svc, sec, newRows, search, service) ==
    IF service # <<>> /\ svc # service
    THEN [sec EXCEPT !.hidden = TRUE]
    ELSE LET visibleCount ==
                 Cardinality({i \in SectionRows(rows, svc) : ~newRows[i].hidden})
             hasVisible == visibleCount > 0
             counted == [sec EXCEPT !.hidden = ~hasVisible,
                                    !.count = CountLabel(visibleCount)]
         IN  IF hasVisible /\ search # <<>>
             THEN [counted EXCEPT !.collapsed = FALSE,
                                  !.icon = "-",
                                  !.autoExpanded = TRUE]
             ELSE IF search = <<>> /\ sec.autoExpanded
             THEN [counted EXCEPT !.collapsed = TRUE,
                                  !.icon = "+",
                                  !.autoExpanded = FALSE]
             ELSE counted

\* a filterResources that runs the row loop in every section
FilterRowsOfEverySection(rows, rs, searchValue, service, region, tag) ==
    [i \in DOMAIN rs |->
        FilterRow(rows[i], rs[i], ToLower(searchValue), service, region, tag)]

\* the rows after filterResources: a section that the service filter
\* excludes returns before its row loop
FilterRows(rows, rs, searchValue, service, region, tag) ==
    LET search == ToLower(searchValue)
    IN  [i \in DOMAIN rs |->
            IF service # <<>> /\ rows[i].service # service
            THEN rs[i]
            ELSE FilterRow(rows[i], rs[i], search, service, region, tag)]

\* the sections after filterResources
FilterSections(rows, ss, newRows, searchValue, service) ==
    [svc \in DOMAIN ss |->
        FilterSection(rows, svc, ss[svc], newRows, ToLower(searchValue), service)]

\* document.querySelectorAll('tbody tr:not(.hidden):not(.details-row)')
VisibleRows(rows, rs) ==
    SelectSeq([i \in 1..Len(rows) |-> i], LAMBDA i : ~rs[i].hidden)

\* svc + '/' + type.textContent: the text of the first cell, badge included
TypeKey(row) == row.service \o <<"/">> \o Concat(row.cells[1])

\* typeCounts of updateDashboard: the rows not hidden, counted by type key
TypeCounts(rows, rs) ==
    LET visibleRows == VisibleRows(rows, rs)
    IN  CountBy([k \in 1..Len(visibleRows) |-> TypeKey(rows[visibleRows[k]])])

\* updateDashboard: the stat cards and the charts from the rows not hidden
UpdateDashboard(rows, rs) ==
    LET visibleRows == VisibleRows(rows, rs)
        serviceCounts == CountBy([k \in 1..Len(visibleRows) |-> rows[visibleRows[k]].service])
        regionCounts == CountBy([k \in 1..Len(visibleRows) |-> rows[visibleRows[k]].region])
        typeCounts == CountBy([k \in 1..Len(visibleRows) |-> TypeKey(rows[visibleRows[k]])])
        total == Len(visibleRows)
    IN  [total         |-> total,
         services      |-> Len(serviceCounts),
         regions       |-> Len(regionCounts),
         types         |-> Len(typeCounts),
         chartServices |-> JsChart(serviceCounts, total, TRUE),
         chartRegions  |-> JsChart(regionCounts, total, FALSE)]

----------------------------------------------------------------------------
(* The report's script: exportCSV *)

\* '"' + s.replace(/"/g, '""') + '"'
CsvQuote(s) ==
    <<"\"">> \o Concat([i \in 1..Len(s) |->
                    IF s[i] = "\"" THEN <<"\"", "\"">> ELSE <<s[i]>>]) \o <<"\"">>

\* the data line exportCSV writes for one row
CsvLine(row) ==
    Join(<<",">>, <<CsvQuote(row.service),
                   CsvQuote(Concat(row.cells[1])),
                   CsvQuote(Concat(row.cells[2])),
                   CsvQuote(Concat(row.cells[3])),
                   CsvQuote(row.region)>>)

\* the data lines of the blob exportCSV builds, after its header line
ExportLines(rows, rs) ==
    LET visibleRows == VisibleRows(rows, rs)
    IN  [k \in 1..Len(visibleRows) |-> CsvLine(rows[visibleRows[k]])]

Nothing == [kind |-> "none", lines |-> <<>>]

----------------------------------------------------------------------------
(* The inputs of the model *)

ec2 == <<"e", "c", "2">>
s3 == <<"s", "3">>
env == <<"e", "n", "v">>
prod == <<"p", "r", "o", "d">>

\* an instance with a name, a tag and a detail
RecWeb ==
    [service |-> Str(ec2), type |-> Str(<<"v", "m">>), id |-> Str(<<"i", "-", "1">>),
     name |-> Str(<<"W", "e", "b">>), region |-> Str(<<"u", "s">>), arn |-> Absent,
     is_default |-> FALSE, tags |-> <<<<env, prod>>>>,
     details |-> <<<<<<"r", "o", "l", "e">>, DStr(<<"d", "b">>)>>>>]

\* a default instance without name, region, tags or details
RecDefault ==
    [service |-> Str(ec2), type |-> Str(<<"v", "m">>), id |-> Str(<<"i", "-", "2">>),
     name |-> Absent, region |-> Absent, arn |-> Absent,
     is_default |-> TRUE, tags |-> <<>>, details |-> <<>>]

\* a bucket with a null region, named like the instance's detail, and with
\* the name in its own detail too
RecBucket ==
    [service |-> Str(s3), type |-> Str(<<"b", "k", "t">>), id |-> Str(<<"b", "-", "1">>),
     name |-> Str(<<"D", "B">>), region |-> Null, arn |-> Absent,
     is_default |-> FALSE, tags |-> <<>>,
     details |-> <<<<<<"u", "s", "e">>, DStr(<<"d", "b", "2">>)>>>>]

\* the records resource lists are made of, the bucket first so that the
\* order of first appearance of the services is not their sorted order
Catalogue == <<RecBucket, RecWeb, RecDefault>>

\* the records of the catalogue at the positions in S, in catalogue order
SubList(S) ==
    LET idx == SelectSeq([i \in 1..Len(Catalogue) |-> i], LAMBDA i : i \in S)
    IN  [k \in 1..Len(idx) |-> Catalogue[idx[k]]]

\* the resource lists: up to MaxRecords records of the catalogue
ResourceLists ==
    {SubList(S) : S \in {T \in SUBSET (1..Len(Catalogue)) : Cardinality(T) <= MaxRecords}}

\* what the user types into the search box
SearchTerms == {<<>>, <<"D", "b">>}

----------------------------------------------------------------------------
(* The state after format_html and the page load *)

InitRowState ==
    [hidden |-> FALSE, expanded |-> FALSE, autoExpanded |-> FALSE, marks |-> FALSE,
     detailHidden |-> FALSE, detailCollapsed |-> TRUE, detailMarks |-> FALSE]

InitSectionState(res, svc) ==
    [hidden |-> FALSE, collapsed |-> TRUE, icon |-> "+", autoExpanded |-> FALSE,
     count |-> CountLabel(Len(ServiceGroup(res, svc)))]

\* the stat cards and charts format_html writes
InitDashboard(res) ==
    LET services == CountBy([i \in 1..Len(res) |-> ServiceOf(res[i])])
        regions == CountBy([i \in 1..Len(res) |-> RegionOf(res[i])])
        resource_types == CountBy([i \in 1..Len(res) |-> TypeKeyOf(res[i])])
        total_resources == Len(res)
    IN  [total         |-> total_resources,
         services      |-> Len(services),
         regions       |-> Len(regions),
         types         |-> Len(resource_types),
         chartServices |-> PyChart(services, total_resources, TRUE),
         chartRegions  |-> PyChart(regions, total_resources, FALSE)]

\* no call of a function of the module is modelled
NoCall == [fn |-> "none"]

\* the page as loaded from the report format_html wrote for resources
PageLoaded ==
    /\ doc = RenderRows(resources)
    /\ searchBox = <<>>
    /\ serviceFilter = <<>>
    /\ regionFilter = <<>>
    /\ tagFilter = <<>>
    /\ debounceTimer = FALSE
    /\ pendingTimers = 0
    /\ rowState = [i \in 1..Len(resources) |-> InitRowState]
    /\ sectionState = [svc \in {Rendered(ServiceOf(resources[i])) : i \in 1..Len(resources)}
                          |-> InitSectionState(resources, svc)]
    /\ options = [service |-> ServiceOptions(resources),
                  region  |-> RegionOptions(resources),
                  tag     |-> TagOptions(resources)]
    /\ dashboard = InitDashboard(resources)
    /\ emitted = Nothing

Init ==
    /\ resources \in ResourceLists
    /\ PageLoaded
    /\ manual = {}
    /\ userExpanded = {}
    /\ call = NoCall
    /\ result = NoCall

----------------------------------------------------------------------------
(* The handlers *)

\* filterResources() with the current values of the four controls
RunFilter(searchValue, service, region, tag) ==
    /\ rowState' = FilterRows(doc, rowState, searchValue, service, region, tag)
    /\ sectionState' = FilterSections(doc, sectionState, rowState', searchValue, service)
    /\ dashboard' = UpdateDashboard(doc, rowState')

\* a clearTimeout that cancels nothing
ClearTimeoutKeepsTimer(pending, live) == pending

\* clearTimeout(debounceTimer): the timeout the variable names is cancelled
\* when it is still pending; the number of timeouts pending afterwards
ClearTimeout(pending, live) == IF live THEN pending - 1 ELSE pending

\* a key released in the search box: onkeyup="debouncedFilter()"
KeyUp(text) ==
    /\ ClearTimeout(pendingTimers, debounceTimer) < MaxPending
    /\ searchBox' = text
    /\ pendingTimers' = ClearTimeout(pendingTimers, debounceTimer) + 1
    /\ debounceTimer' = TRUE
    /\ emitted' = Nothing
    /\ UNCHANGED <<resources, doc, options, serviceFilter, regionFilter, tagFilter,
                   rowState, sectionState, dashboard>>

\* a timeout that expires without running filterResources
TimerFireWithoutPass ==
    /\ pendingTimers > 0
    /\ pendingTimers' = pendingTimers - 1
    /\ debounceTimer' = (debounceTimer /\ pendingTimers > 1)
    /\ emitted' = Nothing
    /\ UNCHANGED <<resources, doc, options, searchBox, serviceFilter, regionFilter, tagFilter,
                   rowState, sectionState, dashboard>>

\* a timeout set by debouncedFilter expires and runs filterResources; the
\* timeouts expire in the order they were set, and debounceTimer names the
\* last one set
TimerFire ==
    /\ pendingTimers > 0
    /\ pendingTimers' = pendingTimers - 1
    /\ debounceTimer' = (debounceTimer /\ pendingTimers > 1)
    /\ emitted' = Nothing
    /\ UNCHANGED <<resources, doc, options, searchBox, serviceFilter, regionFilter, tagFilter>>
    /\ RunFilter(searchBox, serviceFilter, regionFilter, tagFilter)

\* #serviceFilter onchange="filterResources()"
SelectService(value) ==
    /\ value # serviceFilter
    /\ serviceFilter' = value
    /\ emitted' = Nothing
    /\ UNCHANGED <<resources, doc, options, searchBox, regionFilter, tagFilter, debounceTimer, pendingTimers>>
    /\ RunFilter(searchBox, value, regionFilter, tagFilter)

\* #regionFilter onchange="filterResources()"
SelectRegion(value) ==
    /\ value # regionFilter
    /\ regionFilter' = value
    /\ emitted' = Nothing
    /\ UNCHANGED <<resources, doc, options, searchBox, serviceFilter, tagFilter, debounceTimer, pendingTimers>>
    /\ RunFilter(searchBox, serviceFilter, value, tagFilter)

\* #tagFilter onchange="filterResources()"
SelectTag(value) ==
    /\ value # tagFilter
    /\ tagFilter' = value
    /\ emitted' = Nothing
    /\ UNCHANGED <<resources, doc, options, searchBox, serviceFilter, regionFilter, debounceTimer, pendingTimers>>
    /\ RunFilter(searchBox, serviceFilter, regionFilter, value)

\* clearFilters()
ClearFilters ==
    /\ searchBox' = <<>>
    /\ serviceFilter' = <<>>
    /\ regionFilter' = <<>>
    /\ tagFilter' = <<>>
    /\ emitted' = Nothing
    /\ UNCHANGED <<resources, doc, options, debounceTimer, pendingTimers>>
    /\ RunFilter(<<>>, <<>>, <<>>, <<>>)

\* toggleSection(header): a click on the header of a section; a section
\* with the class hidden is not displayed (.hidden: display none)
ToggleSection(svc) ==
    /\ ~sectionState[svc].hidden
    /\ sectionState' = [sectionState EXCEPT
            ![svc].collapsed = ~sectionState[svc].collapsed,
            ![svc].icon = IF ~sectionState[svc].collapsed THEN "+" ELSE "-"]
    /\ emitted' = Nothing
    /\ UNCHANGED <<resources, doc, options, searchBox, serviceFilter, regionFilter, tagFilter,
                   debounceTimer, pendingTimers, rowState, dashboard>>

\* expandAll()
ExpandAll ==
    /\ sectionState' = [svc \in DOMAIN sectionState |->
            [sectionState[svc] EXCEPT !.collapsed = FALSE, !.icon = "-"]]
    /\ rowState' = [i \in DOMAIN rowState |->
            IF doc[i].hasDetails
            THEN [rowState[i] EXCEPT !.detailCollapsed = FALSE, !.expanded = TRUE]
            ELSE rowState[i]]
    /\ emitted' = Nothing
    /\ UNCHANGED <<resources, doc, options, searchBox, serviceFilter, regionFilter, tagFilter,
                   debounceTimer, pendingTimers, dashboard>>

\* collapseAll()
CollapseAll ==
    /\ sectionState' = [svc \in DOMAIN sectionState |->
            [sectionState[svc] EXCEPT !.collapsed = TRUE, !.icon = "+"]]
    /\ rowState' = [i \in DOMAIN rowState |->
            IF doc[i].hasDetails
            THEN [rowState[i] EXCEPT !.detailCollapsed = TRUE, !.expanded = FALSE]
            ELSE rowState[i]]
    /\ emitted' = Nothing
    /\ UNCHANGED <<resources, doc, options, searchBox, serviceFilter, regionFilter, tagFilter,
                   debounceTimer, pendingTimers, dashboard>>

\* the row can be clicked: neither it nor its section is hidden, and the
\* section is not collapsed (.hidden, .service-content.collapsed: display none)
Clickable(i) ==
    /\ ~rowState[i].hidden
    /\ ~sectionState[doc[i].service].hidden
    /\ ~sectionState[doc[i].service].collapsed

\* toggleDetails(row): a click on a row that has a details-row
ToggleDetails(i) ==
    /\ Clickable(i)
    /\ doc[i].hasDetails
    /\ rowState' = [rowState EXCEPT
            ![i].detailCollapsed = ~rowState[i].detailCollapsed,
            ![i].expanded = ~rowState[i].expanded]
    /\ emitted' = Nothing
    /\ UNCHANGED <<resources, doc, options, searchBox, serviceFilter, regionFilter, tagFilter,
                   debounceTimer, pendingTimers, sectionState, dashboard>>

\* an export that closes every detail panel before it reads the rows
ExportCSVCollapsing ==
    /\ emitted' = [kind |-> "csv", lines |-> ExportLines(doc, rowState)]
    /\ rowState' = [i \in DOMAIN rowState |->
            [rowState[i] EXCEPT !.expanded = FALSE, !.detailCollapsed = TRUE]]
    /\ UNCHANGED <<resources, doc, options, searchBox, serviceFilter, regionFilter, tagFilter,
                   debounceTimer, pendingTimers, sectionState, dashboard>>

\* exportCSV(): the header and one line per row the selector finds
ExportCSV ==
    /\ emitted' = [kind |-> "csv", lines |-> ExportLines(doc, rowState)]
    /\ UNCHANGED <<resources, doc, options, searchBox, serviceFilter, regionFilter, tagFilter,
                   debounceTimer, pendingTimers, rowState, sectionState, dashboard>>

\* window.print(): the Print button
PrintPage ==
    /\ emitted' = [kind |-> "print", lines |-> <<>>]
    /\ UNCHANGED <<resources, doc, options, searchBox, serviceFilter, regionFilter, tagFilter,
                   debounceTimer, pendingTimers, rowState, sectionState, dashboard>>

\* the history variables and the function calls take no part
Untracked == UNCHANGED <<manual, userExpanded>>
NoCalls == UNCHANGED <<call, result>>

Next ==
    \/ \E text \in SearchTerms : KeyUp(text) /\ Untracked /\ NoCalls
    \/ TimerFire /\ Untracked /\ NoCalls
    \/ \E value \in options.service : SelectService(value) /\ Untracked /\ NoCalls
    \/ \E value \in options.region : SelectRegion(value) /\ Untracked /\ NoCalls
    \/ \E value \in options.tag : SelectTag(value) /\ Untracked /\ NoCalls
    \/ ClearFilters /\ Untracked /\ NoCalls
    \/ \E svc \in DOMAIN sectionState : ToggleSection(svc) /\ Untracked /\ NoCalls
    \/ ExpandAll /\ Untracked /\ NoCalls
    \/ CollapseAll /\ Untracked /\ NoCalls
    \/ \E i \in DOMAIN rowState : ToggleDetails(i) /\ Untracked /\ NoCalls
    \/ ExportCSV /\ Untracked /\ NoCalls
    \/ PrintPage /\ Untracked /\ NoCalls

Spec == Init /\ [][Next]_vars

----------------------------------------------------------------------------
(* The page with the history of the user's manual expansions recorded *)

\* the sections after a click on a section header, as the user left them
TrackSection(svc) ==
    /\ userExpanded' = IF sectionState'[svc].collapsed
                       THEN userExpanded \ {svc}
                       ELSE userExpanded \cup {svc}
    /\ UNCHANGED manual

\* the rows after a click on a row, as the user left them
TrackRow(i) ==
    /\ manual' = IF rowState'[i].expanded THEN manual \cup {i} ELSE manual \ {i}
    /\ UNCHANGED userExpanded

\* the sections that Expand All opened: those that were collapsed
TrackExpandAll ==
    /\ userExpanded' = userExpanded \cup
                           {svc \in DOMAIN sectionState : sectionState[svc].collapsed}
    /\ UNCHANGED manual

NextHistory ==
    \/ \E text \in SearchTerms : KeyUp(text) /\ Untracked /\ NoCalls
    \/ TimerFire /\ Untracked /\ NoCalls
    \/ \E value \in options.service : SelectService(value) /\ Untracked /\ NoCalls
    \/ \E value \in options.region : SelectRegion(value) /\ Untracked /\ NoCalls
    \/ \E value \in options.tag : SelectTag(value) /\ Untracked /\ NoCalls
    \/ ClearFilters /\ Untracked /\ NoCalls
    \/ \E svc \in DOMAIN sectionState : ToggleSection(svc) /\ TrackSection(svc) /\ NoCalls
    \/ ExpandAll /\ TrackExpandAll /\ NoCalls
    \/ CollapseAll /\ userExpanded' = {} /\ manual' = {} /\ NoCalls
    \/ \E i \in DOMAIN rowState : ToggleDetails(i) /\ TrackRow(i) /\ NoCalls

SpecHistory == Init /\ [][NextHistory]_vars

----------------------------------------------------------------------------
(* The page of the report of two records: an instance with a tag and a *)
(* bucket with a null region, both without name and details             *)

ScenarioInstance ==
    [service |-> Str(ec2), type |-> Str(<<"i", "n", "s", "t", "a", "n", "c", "e">>),
     id |-> Str(<<"i", "-", "1">>), name |-> Absent,
     region |-> Str(<<"u", "s", "-", "e", "a", "s", "t", "-", "1">>), arn |-> Absent,
     is_default |-> FALSE, tags |-> <<<<env, prod>>>>, details |-> <<>>]

ScenarioBucket ==
    [service |-> Str(s3), type |-> Str(<<"b", "u", "c", "k", "e", "t">>),
     id |-> Str(<<"b", "-", "1">>), name |-> Absent, region |-> Null, arn |-> Absent,
     is_default |-> FALSE, tags |-> <<>>, details |-> <<>>]

Scenario == <<ScenarioInstance, ScenarioBucket>>

\* what the user types into the search box of this report: nothing, the
\* value of the tag, the id of the instance
ScenarioTerms == {<<>>, prod, <<"i", "-", "1">>}

InitScenario ==
    /\ resources = Scenario
    /\ PageLoaded
    /\ manual = {}
    /\ userExpanded = {}
    /\ call = NoCall
    /\ result = NoCall

\* no row of this report has a details-row, so no row has an onclick handler
NextScenario ==
    \/ \E text \in ScenarioTerms : KeyUp(text) /\ Untracked /\ NoCalls
    \/ TimerFire /\ Untracked /\ NoCalls
    \/ \E value \in options.service : SelectService(value) /\ Untracked /\ NoCalls
    \/ \E value \in options.region : SelectRegion(value) /\ Untracked /\ NoCalls
    \/ \E value \in options.tag : SelectTag(value) /\ Untracked /\ NoCalls
    \/ ClearFilters /\ Untracked /\ NoCalls
    \/ \E svc \in DOMAIN sectionState : ToggleSection(svc) /\ Untracked /\ NoCalls
    \/ ExpandAll /\ Untracked /\ NoCalls
    \/ CollapseAll /\ Untracked /\ NoCalls

SpecScenario == InitScenario /\ [][NextScenario]_vars

----------------------------------------------------------------------------
(* The formatters and format_output *)

json == <<"j", "s", "o", "n">>
csv == <<"c", "s", "v">>
html == <<"h", "t", "m", "l">>

\* format_json: json.dumps of the whole data, every field as it is
FormatJson(data) == [format |-> "json", value |-> data]

\* fieldnames of format_csv
Fieldnames ==
    << <<"s", "e", "r", "v", "i", "c", "e">>, <<"t", "y", "p", "e">>, <<"i", "d">>,
       <<"n", "a", "m", "e">>, <<"r", "e", "g", "i", "o", "n">>, <<"a", "r", "n">>,
       <<"i", "s", "_", "d", "e", "f", "a", "u", "l", "t">>, <<"t", "a", "g", "s">> >>

\* what csv.writer writes for resource.get(key, ''): None is written as ''
PyCsvValue(field) == IF field.kind = "str" THEN field.s ELSE <<>>

\* a field as csv.writer writes it (QUOTE_MINIMAL): quoted when it holds the
\* delimiter, the quote character or a line end
PyCsvField(s) ==
    IF \E i \in 1..Len(s) : s[i] \in {",", "\"", "\r", "\n"}
    THEN CsvQuote(s)
    ELSE s

\* tags_str = '; '.join(f"{k}={v}" for k, v in tags.items()) if tags else ''
TagsStr(tags) ==
    Join(<<";", " ">>, [k \in 1..Len(tags) |-> tags[k][1] \o <<"=">> \o tags[k][2]])

\* the fields of the row format_csv writes for one resource
PyCsvRow(r) ==
    <<PyCsvValue(r.service), PyCsvValue(r.type), PyCsvValue(r.id), PyCsvValue(r.name),
      PyCsvValue(r.region), PyCsvValue(r.arn),
      PyStrValue(DBool(r.is_default)), TagsStr(r.tags)>>

\* "service,type,id,name,region,arn,is_default,tags", the line format_csv
\* returns for an empty resource list, without its line end
HeaderLine ==
    <<"s", "e", "r", "v", "i", "c", "e", ",", "t", "y", "p", "e", ",", "i", "d", ",",
      "n", "a", "m", "e", ",", "r", "e", "g", "i", "o", "n", ",", "a", "r", "n", ",",
      "i", "s", "_", "d", "e", "f", "a", "u", "l", "t", ",", "t", "a", "g", "s">>

\* a format_csv that writes the rows and no header
FormatCsvWithoutHeader(data) ==
    [format |-> "csv",
     lines  |-> [i \in 1..Len(data.resources) |->
                    [fields |-> [k \in 1..Len(Fieldnames) |->
                                    PyCsvField(PyCsvRow(data.resources[i])[k])],
                     end |-> "\r\n"]]]

\* format_csv: the lines written, each with its fields and its line end; an
\* empty resource list gives the literal header line
FormatCsv(data) ==
    IF data.resources = <<>>
    THEN [format |-> "csv", lines |-> <<[fields |-> Split(HeaderLine, ","), end |-> "\n"]>>]
    ELSE [format |-> "csv",
          lines |-> <<[fields |-> [k \in 1..Len(Fieldnames) |-> PyCsvField(Fieldnames[k])],
                       end |-> "\r\n"]>>
                    \o [i \in 1..Len(data.resources) |->
                           [fields |-> [k \in 1..Len(Fieldnames) |->
                                           PyCsvField(PyCsvRow(data.resources[i])[k])],
                            end |-> "\r\n"]]]

\* format_html: the report, as the rows, filter options and dashboard it holds
FormatHtml(data) ==
    [format    |-> "html",
     rows      |-> RenderRows(data.resources),
     options   |-> [service |-> ServiceOptions(data.resources),
                    region  |-> RegionOptions(data.resources),
                    tag     |-> TagOptions(data.resources)],
     dashboard |-> InitDashboard(data.resources)]

\* nothing was returned
NoOutput == [format |-> "none"]
NoError == [type |-> "none", message |-> <<>>]

\* "Unsupported format: "
UnsupportedFormat ==
    <<"U", "n", "s", "u", "p", "p", "o", "r", "t", "e", "d", " ",
      "f", "o", "r", "m", "a", "t", ":", " ">>

\* a format_output that compares the name as given
FormatOutputCaseSensitive(data, format_type) ==
    IF format_type = json
    THEN [stage |-> "returned", out |-> FormatJson(data), error |-> NoError, data |-> data]
    ELSE IF format_type = csv
    THEN [stage |-> "returned", out |-> FormatCsv(data), error |-> NoError, data |-> data]
    ELSE IF format_type = html
    THEN [stage |-> "returned", out |-> FormatHtml(data), error |-> NoError, data |-> data]
    ELSE [stage |-> "raised", out |-> NoOutput, data |-> data,
          error |-> [type |-> "ValueError", message |-> UnsupportedFormat \o format_type]]

\* format_output(data, format_type): what it returns or raises, and the data
\* after the call (no formatter writes to it)
FormatOutput(data, format_type) ==
    LET lowered == ToLower(format_type)
    IN  IF lowered = json
        THEN [stage |-> "returned", out |-> FormatJson(data), error |-> NoError, data |-> data]
        ELSE IF lowered = csv
        THEN [stage |-> "returned", out |-> FormatCsv(data), error |-> NoError, data |-> data]
        ELSE IF lowered = html
        THEN [stage |-> "returned", out |-> FormatHtml(data), error |-> NoError, data |-> data]
        ELSE [stage |-> "raised", out |-> NoOutput, data |-> data,
              error |-> [type |-> "ValueError", message |-> UnsupportedFormat \o lowered]]

----------------------------------------------------------------------------
(* Calls of the functions of the module, one call per behaviour *)

\* the strings of at most n characters of a set
Strings(chars, n) == UNION {[1..k -> chars] : k \in 0..n}

\* the texts of the cells: both cases of a letter, another letter, and the
\* capital whose lower case is two characters
Texts == Strings({"a", "A", "b", DottedCapitalI}, MaxText)

\* the search terms: filterResources passes the search text in lower case
Terms == Strings({"a", "b"}, MaxTerm)

\* the child nodes of a cell with a text: the parser makes one text node,
\* and none for an empty text
ElementOf(text) == IF text = <<>> THEN <<>> ELSE <<TextNode(text)>>

HighlightCalls ==
    {[fn |-> "highlightMatches", text |-> t, term |-> q] : t \in Texts, q \in Terms}

\* the format names asked for: the three formats, in other letter case too,
\* another format and no name
FormatNames ==
    {json, csv, html, <<"J", "S", "O", "N">>, <<"H", "t", "m", "l">>,
     <<"x", "m", "l">>, <<"X", "M", "L">>, <<>>}

FormatCalls ==
    {[fn |-> "format_output", data |-> [resources |-> res], format_type |-> name] :
        res \in ResourceLists, name \in FormatNames}

\* a resource without name, arn or details
Item(svc, typ, id, reg, tags) ==
    [service |-> svc, type |-> Str(typ), id |-> Str(id), name |-> Absent,
     region |-> reg, arn |-> Absent, is_default |-> FALSE, tags |-> tags,
     details |-> <<>>]

\* the records the formatters are called on: seven services, one of them
\* absent, that first appear in an order that is not their sorted order, one
\* of them twice; six regions, the region absent, null or empty three
\* times; tag keys and values in both letter cases, one pair twice
Inventory ==
    <<Item(Str(<<"f">>), <<"t">>, <<"i", "0">>, Str(<<"u", "s">>), <<<<env, prod>>>>),
      Item(Str(<<"e">>), <<"t">>, <<"i", "1">>, Null,
           <<<<env, <<"d", "e", "v">>>>, <<<<"T", "e", "a", "m">>, <<"x">>>>>>),
      Item(Str(<<"d">>), <<"u">>, <<"i", "2">>, Str(<<"e", "u">>), <<<<env, prod>>>>),
      Item(Str(<<"c">>), <<"t">>, <<"i", "3">>, Absent, <<>>),
      Item(Str(<<"b">>), <<"t">>, <<"j", "0">>, Str(<<"a", "p">>),
           <<<<<<"a", "p", "p">>, <<"w">>>>, <<env, <<"P", "r", "o", "d">>>>>>),
      Item(Str(<<"a">>), <<"t">>, <<"j", "1">>, Str(<<"s", "a">>), <<>>),
      Item(Str(<<"a">>), <<"u">>, <<"j", "2">>, Str(<<"a", "f">>),
           <<<<<<"T", "e", "a", "m">>, <<"x">>>>>>),
      Item(Absent, <<"t">>, <<"j", "3">>, Str(<<>>), <<>>)>>

\* the records of a list at the positions in S, in the order of the list
Pick(list, S) ==
    LET idx == SelectSeq([i \in 1..Len(list) |-> i], LAMBDA i : i \in S)
    IN  [k \in 1..Len(idx) |-> list[idx[k]]]

\* the lists the formatters are called on: up to MaxInventory records
InventoryLists ==
    {Pick(Inventory, S) :
        S \in {T \in SUBSET (1..Len(Inventory)) : Cardinality(T) <= MaxInventory}}

FormatterCalls ==
    {[fn |-> name, data |-> [resources |-> res]] :
        name \in {"format_html", "format_csv"}, res \in InventoryLists}

Calls == HighlightCalls \cup FormatCalls \cup FormatterCalls

\* the variables of the page
pageVars == <<resources, doc, searchBox, serviceFilter, regionFilter, tagFilter,
              debounceTimer, pendingTimers, rowState, sectionState, options,
              dashboard, emitted>>

InitCalls ==
    /\ resources = <<>>
    /\ PageLoaded
    /\ manual = {}
    /\ userExpanded = {}
    /\ call \in Calls
    /\ result = [stage |-> "called"]

\* highlightMatches(element, term, selector) on a cell with the text
RunHighlightMatches ==
    /\ call.fn = "highlightMatches"
    /\ result.stage = "called"
    /\ result' = [stage  |-> "marked",
                  marked |-> HighlightNodes(ElementOf(call.text), call.term),
                  nodes  |-> HighlightNodes(ElementOf(call.text), call.term)]
    /\ UNCHANGED <<pageVars, manual, userExpanded, call>>

\* clearHighlights(element) on the cell, up to twice
RunClearHighlights ==
    /\ call.fn = "highlightMatches"
    /\ result.stage \in {"marked", "cleared"}
    /\ result' = [stage  |-> IF result.stage = "marked" THEN "cleared" ELSE "cleared again",
                  marked |-> result.marked,
                  nodes  |-> ClearHighlights(result.nodes)]
    /\ UNCHANGED <<pageVars, manual, userExpanded, call>>

\* format_output(data, format_type)
RunFormatOutput ==
    /\ call.fn = "format_output"
    /\ result.stage = "called"
    /\ result' = FormatOutput(call.data, call.format_type)
    /\ UNCHANGED <<pageVars, manual, userExpanded, call>>

\* format_html(data): the report, and the groups and counts it is built from
RunFormatHtml ==
    /\ call.fn = "format_html"
    /\ result.stage = "called"
    /\ result' = [stage          |-> "returned",
                  services       |-> Services(call.data.resources),
                  regions        |-> Regions(call.data.resources),
                  all_tags       |-> AllTags(call.data.resources),
                  resource_types |-> ResourceTypes(call.data.resources),
                  tag_options    |-> TagOptionList(call.data.resources),
                  out            |-> FormatHtml(call.data)]
    /\ UNCHANGED <<pageVars, manual, userExpanded, call>>

\* format_csv(data)
RunFormatCsv ==
    /\ call.fn = "format_csv"
    /\ result.stage = "called"
    /\ result' = [stage |-> "returned", out |-> FormatCsv(call.data)]
    /\ UNCHANGED <<pageVars, manual, userExpanded, call>>

NextCalls ==
    \/ RunHighlightMatches
    \/ RunClearHighlights
    \/ RunFormatOutput
    \/ RunFormatHtml
    \/ RunFormatCsv

SpecCalls == InitCalls /\ [][NextCalls]_vars

----------------------------------------------------------------------------
(* The page of reports whose tags hold the separators of the tag filter:   *)
(* "|" joins the tags of a row in data-tags, "=" joins key and value       *)

\* a resource of the service svc with the tags given
Tagged(svc, id, tags) == Item(Str(svc), <<"t">>, id, Str(<<"u", "s">>), tags)

\* the records: a value with "|" whose first part is the value of another
\* record; a key with "=" and a value with "=" that give the same
\* "key=value" text; two tags without either character
TagCatalogue ==
    <<Tagged(s3, <<"t", "0">>, <<<<<<"a">>, <<"x", "|", "y">>>>>>),
      Tagged(ec2, <<"t", "1">>, <<<<<<"a">>, <<"x">>>>>>),
      Tagged(ec2, <<"t", "2">>, <<<<<<"a", "=", "b">>, <<"c">>>>>>),
      Tagged(s3, <<"t", "3">>, <<<<<<"a">>, <<"b", "=", "c">>>>>>),
      Tagged(ec2, <<"t", "0", "0">>, <<<<env, prod>>, <<<<"b">>, <<"y">>>>>>)>>

\* the resource lists: up to MaxRecords records of the tag catalogue
TagLists ==
    {Pick(TagCatalogue, S) :
        S \in {T \in SUBSET (1..Len(TagCatalogue)) : Cardinality(T) <= MaxRecords}}

InitTags ==
    /\ resources \in TagLists
    /\ PageLoaded
    /\ manual = {}
    /\ userExpanded = {}
    /\ call = NoCall
    /\ result = NoCall

\* the search edits and the selections; no row of these reports has a
\* details-row, so no row has an onclick handler
NextFilters ==
    \/ \E text \in SearchTerms : KeyUp(text) /\ Untracked /\ NoCalls
    \/ TimerFire /\ Untracked /\ NoCalls
    \/ \E value \in options.service : SelectService(value) /\ Untracked /\ NoCalls
    \/ \E value \in options.region : SelectRegion(value) /\ Untracked /\ NoCalls
    \/ \E value \in options.tag : SelectTag(value) /\ Untracked /\ NoCalls
    \/ ClearFilters /\ Untracked /\ NoCalls

SpecTags == InitTags /\ [][NextFilters]_vars

----------------------------------------------------------------------------
(* The page under search edits and selections alone, with the timeouts of *)
(* debouncedFilter running when they are due                              *)

\* a key event in the search box
SearchEdit == \E text \in SearchTerms : KeyUp(text)

\* a key event while a timeout is pending: clearTimeout cancels the timeout
\* and setTimeout starts another 300 ms
Rearm == pendingTimers > 0 /\ SearchEdit

\* a pending timeout comes to its end: a key event replaces it, or it
\* expires and runs filterResources
TimerEnds == (Rearm \/ TimerFire) /\ Untracked /\ NoCalls

\* setTimeout(filterResources, 300): a timeout does not stay pending for
\* ever; the browser runs it unless clearTimeout cancels it first
SpecLive == Init /\ [][NextFilters]_vars /\ WF_vars(TimerEnds)

----------------------------------------------------------------------------
(* Notions the properties are stated in *)

\* a step in which filterResources runs
FilterPass ==
    \/ TimerFire
    \/ \E value \in options.service : SelectService(value)
    \/ \E value \in options.region : SelectRegion(value)
    \/ \E value \in options.tag : SelectTag(value)
    \/ ClearFilters

\* the resource record a row was rendered from
RecordOf(i) == resources[doc[i].res]

\* the FilterState: the values of the four controls
FilterState ==
    [search |-> searchBox, service |-> serviceFilter,
     region |-> regionFilter, tag |-> tagFilter]

\* the row's section is excluded by the service filter
Excluded(i, fs) == fs.service # <<>> /\ ServiceOf(RecordOf(i)) # fs.service

\* the four predicates of a row under a FilterState
ServicePredicate(i, fs) == fs.service = <<>> \/ ServiceOf(RecordOf(i)) = fs.service
RegionPredicate(i, fs) == fs.region = <<>> \/ RegionOf(RecordOf(i)) = fs.region
TagPredicate(i, fs) ==
    \/ fs.tag = <<>>
    \/ \E k \in DOMAIN Split(doc[i].tags, "|") : Split(doc[i].tags, "|")[k] = fs.tag
SearchPredicate(i, fs) ==
    \/ Len(fs.search) = 0
    \/ Includes(ToLower(PyStr(RecordOf(i).name, <<>>)), ToLower(fs.search))
    \/ Includes(ToLower(PyStr(RecordOf(i).id, <<>>)), ToLower(fs.search))
    \/ Includes(ToLower(doc[i].details), ToLower(fs.search))

SatisfiesAll(i, fs) ==
    /\ ServicePredicate(i, fs)
    /\ RegionPredicate(i, fs)
    /\ TagPredicate(i, fs)
    /\ SearchPredicate(i, fs)

\* the rows the reader of the report sees: not hidden, in a section not hidden
DisplayedIn(rs, ss) == {i \in DOMAIN rs : ~rs[i].hidden /\ ~ss[doc[i].service].hidden}
DisplayedRows == DisplayedIn(rowState, sectionState)

\* the rows that do not carry the class hidden
NotHidden(rs) == {i \in DOMAIN rs : ~rs[i].hidden}

\* row flags in which exactly the rows of a set are not hidden
HiddenExcept(S) == [i \in 1..Len(doc) |-> [hidden |-> i \notin S]]

\* the stat cards of a dashboard
Counts(d) == <<d.total, d.services, d.regions, d.types>>

----------------------------------------------------------------------------
(* Properties *)

\* C1: after every filter pass, a row of a section that the service filter
\* does not exclude is shown iff the service, region, tag and search
\* predicates all hold for it.
C1_ShownIffAllFour ==
    [][FilterPass =>
        \A i \in 1..Len(doc) :
            ~Excluded(i, FilterState') =>
                (~rowState'[i].hidden <=> SatisfiesAll(i, FilterState'))]_vars

\* a filter pass has hidden one row of a section in play and shown another
C1_Witness ==
    /\ ~debounceTimer
    /\ regionFilter # <<>>
    /\ \E i, j \in 1..Len(doc) :
          /\ ~Excluded(i, FilterState) /\ rowState[i].hidden
          /\ ~SatisfiesAll(i, FilterState)
          /\ ~Excluded(j, FilterState) /\ ~rowState[j].hidden
          /\ SatisfiesAll(j, FilterState)

\* C2: after every filter pass the stat cards and both Top charts are those
\* of exactly the rows that satisfy all active filters; the rows of a section
\* hidden by the service filter are not counted.
C2_DashboardOfVisibleRows ==
    [][FilterPass =>
        dashboard' = UpdateDashboard(doc,
            HiddenExcept({i \in 1..Len(doc) : SatisfiesAll(i, FilterState')}))]_vars

\* C3: exportCSV writes one data line for each displayed row and none for a
\* row that is hidden or lies in a section hidden by the service filter.
C3_ExportOfVisibleRows ==
    emitted.kind = "csv" =>
        emitted.lines = ExportLines(doc, HiddenExcept(DisplayedRows))

\* C4: clearFilters leaves every row and every section visible and the
\* total, services, regions and resource-types counts equal to those of the
\* report as rendered.
C4_ClearRestoresCounts ==
    [][ClearFilters =>
        /\ \A i \in 1..Len(doc) : ~rowState'[i].hidden
        /\ \A svc \in DOMAIN sectionState : ~sectionState'[svc].hidden
        /\ Counts(dashboard') = Counts(InitDashboard(resources))]_vars

\* C5: after clearFilters each Top chart shows the groups, order, counts and
\* bar widths of the chart of the report as rendered.
C5_ClearRestoresCharts ==
    [][ClearFilters =>
        /\ dashboard'.chartServices = InitDashboard(resources).chartServices
        /\ dashboard'.chartRegions = InitDashboard(resources).chartRegions]_vars

\* the rows after one filter pass on the report as rendered
FreshRows(fs) ==
    FilterRows(doc, [i \in 1..Len(doc) |-> InitRowState],
               fs.search, fs.service, fs.region, fs.tag)

\* the count labels after one filter pass on the report as rendered
FreshCounts(fs, rs) ==
    LET ss == FilterSections(doc,
                  [svc \in DOMAIN sectionState |-> InitSectionState(resources, svc)],
                  rs, fs.search, fs.service)
    IN  [svc \in DOMAIN sectionState |-> ss[svc].count]

\* C6: the visible rows, the section counts and the dashboard after a filter
\* pass depend only on the FilterState: they are those of a pass with the
\* same FilterState on the report as rendered, whatever happened before.
C6_ResultOfFilterStateOnly ==
    [][FilterPass =>
        /\ NotHidden(rowState') = NotHidden(FreshRows(FilterState'))
        /\ [svc \in DOMAIN sectionState |-> sectionState'[svc].count]
              = FreshCounts(FilterState', FreshRows(FilterState'))
        /\ dashboard' = UpdateDashboard(doc, FreshRows(FilterState'))]_vars

\* C7: with a service filter set and the view up to date, adding a region
\* filter never shows a row that was not shown and never raises the total.
C7_RegionNarrowsService ==
    [][(/\ serviceFilter # <<>>
        /\ regionFilter = <<>>
        /\ ~debounceTimer
        /\ \E value \in options.region : SelectRegion(value))
       =>
       (/\ DisplayedIn(rowState', sectionState') \subseteq DisplayedRows
        /\ NotHidden(rowState') \subseteq NotHidden(rowState)
        /\ dashboard'.total <= dashboard.total)]_vars

\* a service and a region filter are set and the region filter hides a row
\* of the selected service
C7_Witness ==
    /\ serviceFilter # <<>>
    /\ regionFilter # <<>>
    /\ ~debounceTimer
    /\ DisplayedRows # {}
    /\ \E i \in 1..Len(doc) :
          /\ ~Excluded(i, FilterState)
          /\ rowState[i].hidden
          /\ ~RegionPredicate(i, FilterState)

\* the row flags after the search box is set to a text and the pass runs,
\* then emptied and the pass runs again
SearchRoundTrip(text) ==
    FilterRows(doc,
               FilterRows(doc, rowState, text, serviceFilter, regionFilter, tagFilter),
               <<>>, serviceFilter, regionFilter, tagFilter)

\* the text is found in the detail text of a row and not in its name or id
MatchesOnlyDetails(i, text) ==
    /\ text # <<>>
    /\ Includes(doc[i].details, ToLower(text))
    /\ ~Includes(doc[i].name, ToLower(text))
    /\ ~Includes(doc[i].id, ToLower(text))

\* C8: from a view with an empty search box, searching for a text that
\* matches a row only in its details and then emptying the search box gives
\* every row the expanded and autoExpanded flags it had before.
C8_SearchRoundTrip ==
    (searchBox = <<>> /\ ~debounceTimer) =>
        \A text \in SearchTerms :
            (\E i \in 1..Len(doc) : MatchesOnlyDetails(i, text)) =>
                \A i \in 1..Len(doc) :
                    /\ SearchRoundTrip(text)[i].expanded = rowState[i].expanded
                    /\ SearchRoundTrip(text)[i].autoExpanded = rowState[i].autoExpanded

\* C9: a row whose autoExpanded flag is set is expanded.
C9_AutoExpandedIsExpanded ==
    \A i \in 1..Len(doc) : rowState[i].autoExpanded => rowState[i].expanded

\* C10: a click on a row (toggleDetails) leaves its autoExpanded flag cleared.
C10_ToggleClearsAutoExpanded ==
    [][\A i \in 1..Len(doc) : ToggleDetails(i) => ~rowState'[i].autoExpanded]_vars

\* C11: a row the user opened by a click and has not closed since is expanded,
\* whatever search edits, filter changes and clears came after the click.
C11_ManualExpandSticks ==
    \A i \in manual : rowState[i].expanded

\* the rows of a section that the reader of the report sees
DisplayedOf(svc, rs, ss) == {i \in DisplayedIn(rs, ss) : doc[i].service = svc}

\* C13: a filter pass with a search text leaves every section with a displayed
\* row expanded; a filter pass with an empty search text leaves every section
\* the user has not expanded collapsed.
C13_SectionAutoExpandReverts ==
    [][FilterPass =>
        /\ searchBox' # <<>> =>
               \A svc \in DOMAIN sectionState :
                   DisplayedOf(svc, rowState', sectionState') # {}
                       => ~sectionState'[svc].collapsed
        /\ searchBox' = <<>> =>
               \A svc \in DOMAIN sectionState :
                   svc \notin userExpanded' => sectionState'[svc].collapsed]_vars

\* C14: a section the user expanded and has not collapsed since is expanded,
\* also after a search text was set and cleared.
C14_UserExpandedSticks ==
    \A svc \in userExpanded : ~sectionState[svc].collapsed

\* the detail text of a row contains the search text, compared in lower case
DetailsContain(i, text) ==
    /\ doc[i].hasDetails
    /\ Includes(ToLower(doc[i].details), ToLower(text))

\* the name or the id of a row's record contains the search text
NameOrIdContains(i, text) ==
    \/ Includes(ToLower(PyStr(RecordOf(i).name, <<>>)), ToLower(text))
    \/ Includes(ToLower(PyStr(RecordOf(i).id, <<>>)), ToLower(text))

\* C12: after a filter pass with a search text, every displayed row whose
\* detail text contains the search text is expanded, its detail panel is
\* open and its autoExpanded flag is set, whether or not its name or id
\* contains the search text too.
C12_DetailMatchAutoExpands ==
    [][(FilterPass /\ searchBox' # <<>>) =>
        \A i \in DisplayedIn(rowState', sectionState') :
            DetailsContain(i, searchBox') =>
                /\ rowState'[i].expanded
                /\ rowState'[i].autoExpanded
                /\ ~rowState'[i].detailCollapsed]_vars

\* a search pass has auto-expanded a displayed row whose name matches as well
\* as its detail text
C12_Witness ==
    /\ searchBox # <<>>
    /\ ~debounceTimer
    /\ \E i \in DisplayedRows :
          /\ DetailsContain(i, searchBox)
          /\ NameOrIdContains(i, searchBox)
          /\ rowState[i].expanded
          /\ rowState[i].autoExpanded

\* C15: clearing the highlights of a text marked with any query, the empty
\* one included, gives back the text as the one text node it was; the empty
\* query makes no marks; clearing again changes nothing.
C15_ClearRestoresText ==
    /\ (result.stage = "marked" /\ call.term = <<>>) => result.nodes = ElementOf(call.text)
    /\ result.stage \in {"cleared", "cleared again"} => result.nodes = ElementOf(call.text)

\* a text with a mark between two unmarked parts has been cleared
C15_Witness ==
    /\ result.stage = "cleared"
    /\ Len(result.marked) = 3
    /\ result.marked[2].mark
    /\ result.nodes = <<TextNode(call.text)>>

\* the number of characters before the k-th node
Offset(nodes, k) == Len(Concat([j \in 1..(k - 1) |-> nodes[j].text]))

\* an occurrence of the query, letter case ignored, starts at index p of the text
OccursAt(text, q, p) ==
    \E n \in 0..(Len(text) - p) : ToLower(SubSeq(text, p + 1, p + n)) = ToLower(q)

\* C16: with a non-empty query the nodes highlightMatches leaves spell the
\* text, every marked segment is an occurrence of the query (letter case
\* ignored), and no occurrence starts in an unmarked part: the marked
\* segments are the leftmost occurrences, each found from the end of the
\* one before, and none overlap.
C16_MarksLeftmostOccurrences ==
    (result.stage = "marked" /\ call.term # <<>>) =>
        LET nodes == result.nodes
        IN  /\ Concat([k \in 1..Len(nodes) |-> nodes[k].text]) = call.text
            /\ \A k \in 1..Len(nodes) :
                   IF nodes[k].mark
                   THEN ToLower(nodes[k].text) = ToLower(call.term)
                   ELSE \A p \in Offset(nodes, k)..(Offset(nodes, k) + Len(nodes[k].text) - 1) :
                            ~OccursAt(call.text, call.term, p)

\* C17: once the pending filter pass has run, a row carries highlight marks,
\* in its cells or in its detail panel, only if the reader sees the row and the
\* search text is not empty; a hidden row, a row of a section the service
\* filter hides, and every row under an empty search text carry none.
C17_MarksOnlyOnDisplayedRows ==
    ~debounceTimer =>
        \A i \in 1..Len(doc) :
            (rowState[i].marks \/ rowState[i].detailMarks) =>
                (i \in DisplayedRows /\ searchBox # <<>>)

\* C18: at most one timeout of debouncedFilter is pending; every key event
\* in the search box leaves exactly one pending, the one it started, so a
\* burst of edits is followed by one debounced pass; that pass leaves none
\* pending and shows the rows that match the search text of the moment it runs.
C18_OneDebouncedPass ==
    /\ [](pendingTimers <= 1 /\ (debounceTimer <=> pendingTimers = 1))
    /\ [][(\E text \in SearchTerms : KeyUp(text)) =>
            (pendingTimers' = 1 /\ debounceTimer')]_vars
    /\ [][TimerFire =>
            /\ pendingTimers' = 0
            /\ \A i \in 1..Len(doc) :
                   ~Excluded(i, FilterState) =>
                       (~rowState'[i].hidden <=> SatisfiesAll(i, FilterState))]_vars

\* a search was applied and the search box edited again: the timeout of the
\* edit is pending while the rows still show the marks of the applied search
C18_Witness ==
    /\ pendingTimers = 1
    /\ searchBox = <<>>
    /\ \E i \in 1..Len(doc) : rowState[i].marks

\* C19: exportCSV and the Print button leave the search text, the three
\* filters, the flags of every row and the state of every section unchanged.
C19_ExportAndPrintReadOnly ==
    [][(ExportCSV \/ PrintPage) =>
        UNCHANGED <<searchBox, serviceFilter, regionFilter, tagFilter,
                    rowState, sectionState>>]_vars

\* an export or a print was made of a filtered view with an open detail panel
C19_Witness ==
    /\ emitted.kind \in {"csv", "print"}
    /\ serviceFilter # <<>>
    /\ searchBox # <<>>
    /\ \E i \in 1..Len(doc) : rowState[i].expanded
    /\ \E i \in 1..Len(doc) : rowState[i].hidden

\* the output of the formatter of a format name
FormatterOutput(name, data) ==
    CASE name = json -> FormatJson(data)
      [] name = csv  -> FormatCsv(data)
      [] name = html -> FormatHtml(data)
      [] OTHER       -> NoOutput

\* C20 as stated: a format name other than json, csv or html raises a
\* ValueError whose message holds the name asked for, with no output and the
\* data as it was; json, csv or html returns that formatter's output.
C20_UnsupportedFormatFails ==
    (call.fn = "format_output" /\ result.stage # "called") =>
        IF call.format_type \in {json, csv, html}
        THEN /\ result.stage = "returned"
             /\ result.out = FormatterOutput(call.format_type, call.data)
        ELSE /\ result.stage = "raised"
             /\ result.error.type = "ValueError"
             /\ Includes(result.error.message, call.format_type)
             /\ result.out = NoOutput
             /\ result.data = call.data

\* C20 as amended: the format name is compared in lower case. A name whose
\* lower case is not json, csv or html raises a ValueError whose message ends
\* with the name in lower case, with no output and the data as it was; any
\* other name, in whatever letter case, returns that formatter's output.
C20_UnsupportedFormatFailsIgnoringCase ==
    (call.fn = "format_output" /\ result.stage # "called") =>
        IF ToLower(call.format_type) \in {json, csv, html}
        THEN /\ result.stage = "returned"
             /\ result.error = NoError
             /\ result.out = FormatterOutput(ToLower(call.format_type), call.data)
             /\ result.data = call.data
        ELSE /\ result.stage = "raised"
             /\ result.error.type = "ValueError"
             /\ result.error.message = UnsupportedFormat \o ToLower(call.format_type)
             /\ result.out = NoOutput
             /\ result.data = call.data

\* a format not supported was asked for in capitals, for a list with resources
C20_Witness ==
    /\ call.fn = "format_output"
    /\ result.stage = "raised"
    /\ call.format_type # ToLower(call.format_type)
    /\ call.data.resources # <<>>

RECURSIVE Sum(_)
\* the sum of a list of numbers
Sum(numbers) == IF numbers = <<>> THEN 0 ELSE Head(numbers) + Sum(Tail(numbers))

\* C21: for every record list, records without service or region included,
\* the counts by region, the sizes of the service groups and the counts by
\* type each add up to the number of records.
C21_AggregationSums ==
    (call.fn = "format_html" /\ result.stage = "returned") =>
        /\ Sum([k \in 1..Len(result.regions) |-> result.regions[k].count])
              = Len(call.data.resources)
        /\ Sum([k \in 1..Len(result.services) |-> Len(result.services[k].members)])
              = Len(call.data.resources)
        /\ Sum([k \in 1..Len(result.resource_types) |-> result.resource_types[k].count])
              = Len(call.data.resources)

\* the groups of a list were made in which a record has no service, one has
\* no region, one has a null region, and two records share a service
C21_Witness ==
    /\ call.fn = "format_html"
    /\ result.stage = "returned"
    /\ \E i \in 1..Len(call.data.resources) : call.data.resources[i].service = Absent
    /\ \E i \in 1..Len(call.data.resources) : call.data.resources[i].region = Absent
    /\ \E i \in 1..Len(call.data.resources) : call.data.resources[i].region = Null
    /\ \E k \in 1..Len(result.services) : Len(result.services[k].members) = 2
    /\ \E k \in 1..Len(result.regions) :
          result.regions[k].key = global /\ result.regions[k].count = 3

\* the resources of a list whose region is absent or null
WithoutRegion(res) == {i \in 1..Len(res) : res[i].region \in {Absent, Null}}

\* C22: a record whose region is absent or null is counted under 'global' in
\* the counts by region, its row in the report has the region 'global', and
\* format_csv writes 'global' in the region field of its row.
C22_RegionGlobalEverywhere ==
    /\ (call.fn = "format_html" /\ result.stage = "returned") =>
           \A i \in WithoutRegion(call.data.resources) :
               /\ \E k \in 1..Len(result.regions) :
                      /\ result.regions[k].key = global
                      /\ result.regions[k].count
                             >= Cardinality(WithoutRegion(call.data.resources))
               /\ \A n \in 1..Len(result.out.rows) :
                      result.out.rows[n].res = i => result.out.rows[n].region = global
    /\ (call.fn = "format_csv" /\ result.stage = "returned") =>
           \A i \in WithoutRegion(call.data.resources) :
               result.out.lines[i + 1].fields[5] = global

\* the rows of the report of the two records
InstanceRow == CHOOSE i \in 1..Len(doc) : RecordOf(i) = ScenarioInstance
BucketRow == CHOOSE i \in 1..Len(doc) : RecordOf(i) = ScenarioBucket

\* the search text is the only filter and the pass for it has run
OnlySearch(text) ==
    /\ pendingTimers = 0
    /\ searchBox = text
    /\ serviceFilter = <<>>
    /\ regionFilter = <<>>
    /\ tagFilter = <<>>

\* the tag filter is the only filter and the pass for it has run
OnlyTag(value) ==
    /\ pendingTimers = 0
    /\ searchBox = <<>>
    /\ serviceFilter = <<>>
    /\ regionFilter = <<>>
    /\ tagFilter = value

\* the view shows the instance i-1 and nothing else: the visible set, the
\* total and the type counts
ShowsInstanceOnly ==
    /\ DisplayedRows = {InstanceRow}
    /\ NotHidden(rowState) = {InstanceRow}
    /\ dashboard.total = 1
    /\ \A k \in 1..Len(TypeCounts(doc, rowState)) :
           TypeCounts(doc, rowState)[k].key # TypeKey(doc[BucketRow])

\* the view shows no row
ShowsNothing ==
    /\ DisplayedRows = {}
    /\ NotHidden(rowState) = {}
    /\ dashboard.total = 0
    /\ TypeCounts(doc, rowState) = <<>>

\* C23 as stated: in the report of the two records, with the search text
\* "prod" as the only filter, the pass leaves the instance i-1 as the
\* visible set, a total of 1 and no s3/bucket among the type counts.
C23_SearchProdShowsInstance ==
    OnlySearch(prod) => ShowsInstanceOnly

\* C23 as amended: the search looks at name, id and detail text, not at
\* tags. With the search text "prod" as the only filter the visible set is
\* empty, the total 0 and the type counts empty; with the search text "i-1",
\* or the tag filter "env=prod", as the only filter the visible set is the
\* instance i-1, the total 1, and s3/bucket is not among the type counts.
C23_SearchProdShowsNothing ==
    /\ OnlySearch(prod) => ShowsNothing
    /\ OnlySearch(<<"i", "-", "1">>) => ShowsInstanceOnly
    /\ OnlyTag(env \o <<"=">> \o prod) => ShowsInstanceOnly

\* the pass for the search text "prod" has run and hidden both rows
C23_Witness ==
    /\ OnlySearch(prod)
    /\ resources = Scenario
    /\ rowState[InstanceRow].hidden
    /\ rowState[BucketRow].hidden
    /\ sectionState[ec2].hidden

\* the rows that satisfy all active filters
Satisfying(fs) == {i \in 1..Len(doc) : SatisfiesAll(i, fs)}

\* C24: after every filter pass a section is hidden iff none of its rows
\* satisfies all active filters; when no row does, no row is displayed,
\* every section is hidden and both Top charts are empty.
C24_SectionHiddenIffNoMatch ==
    [][FilterPass =>
        /\ \A svc \in DOMAIN sectionState :
               sectionState'[svc].hidden
                   <=> (\A i \in Satisfying(FilterState') : doc[i].service # svc)
        /\ Satisfying(FilterState') = {} =>
               /\ DisplayedIn(rowState', sectionState') = {}
               /\ \A svc \in DOMAIN sectionState : sectionState'[svc].hidden
               /\ dashboard'.chartServices = <<>>
               /\ dashboard'.chartRegions = <<>>]_vars

\* the (key, value) tag pairs observed in the records
ObservedPairs(res) ==
    UNION {{res[i].tags[k] : k \in 1..Len(res[i].tags)} : i \in 1..Len(res)}

\* the pair (k1, v1) comes before (k2, v2): by key, then by value
PairBefore(k1, v1, k2, v2) == StrLess(k1, k2) \/ (k1 = k2 /\ StrLess(v1, v2))

\* C25: the options of the tag filter hold every (key, value) tag pair seen
\* in a record, each once, and nothing else, in lexicographic (code point)
\* order by key and then by value.
C25_TagVocabularySorted ==
    (call.fn = "format_html" /\ result.stage = "returned") =>
        LET opts == result.tag_options
        IN  /\ {<<opts[j].key, opts[j].value>> : j \in 1..Len(opts)}
                   = ObservedPairs(call.data.resources)
            /\ \A j, k \in 1..Len(opts) :
                   (j # k) => <<opts[j].key, opts[j].value>> # <<opts[k].key, opts[k].value>>
            /\ \A j \in 1..(Len(opts) - 1) :
                   PairBefore(opts[j].key, opts[j].value, opts[j + 1].key, opts[j + 1].value)

\* the options were made for records that hold one pair twice, a key first
\* seen after a key that sorts behind it, and three values of one key
C25_Witness ==
    /\ call.fn = "format_html"
    /\ result.stage = "returned"
    /\ Len(TagItems(call.data.resources)) > Len(result.tag_options)
    /\ Len(result.tag_options) >= 5
    /\ result.tag_options[1].key = <<"T", "e", "a", "m">>
    /\ TagItems(call.data.resources)[1][1] = env
    /\ \E j \in 1..(Len(result.tag_options) - 2) :
          /\ result.tag_options[j].key = env
          /\ result.tag_options[j + 2].key = env

\* the position of an element in a list that holds it
PositionIn(list, x) == CHOOSE n \in 1..Len(list) : list[n] = x

\* the bars are a Top chart of the groups of a list of labels (one label for
\* each record, in the order of the record list): at most 5 bars, counts not
\* increasing, no group left out that is larger than a group listed, and
\* groups of equal count in the order in which they first appear in the list
TopChartOf(bars, labels) ==
    LET groups == Distinct(labels)
        CountOf(label) == Cardinality({n \in 1..Len(labels) : labels[n] = label})
        listed == {bars[j].label : j \in 1..Len(bars)}
    IN  /\ Len(bars) <= 5
        /\ listed \subseteq Range(groups)
        /\ \A j \in 1..(Len(bars) - 1) : bars[j].value >= bars[j + 1].value
        /\ \A label \in Range(groups) \ listed :
               \A j \in 1..Len(bars) : CountOf(label) <= bars[j].value
        /\ \A j, k \in 1..Len(bars) :
               (j < k /\ bars[j].value = bars[k].value) =>
                   PositionIn(groups, bars[j].label) < PositionIn(groups, bars[k].label)

\* the records whose rows are not hidden, in the order of the record list
ShownRecords ==
    SelectSeq([r \in 1..Len(resources) |-> r],
              LAMBDA r : \E i \in 1..Len(doc) : doc[i].res = r /\ ~rowState[i].hidden)

\* C26: each Top chart, as rendered and after every filter pass, lists at
\* most 5 groups of the rows shown, in non-increasing order of count, leaves
\* out no group larger than a listed one, and lists groups with equal counts
\* in the order in which they first appear in the record list.
C26_TopChartsFirstSeenOrder ==
    /\ TopChartOf(dashboard.chartServices,
                  [n \in 1..Len(ShownRecords) |->
                      Rendered(ToUpper(ServiceOf(resources[ShownRecords[n]])))])
    /\ TopChartOf(dashboard.chartRegions,
                  [n \in 1..Len(ShownRecords) |->
                      Rendered(RegionOf(resources[ShownRecords[n]]))])

\* the bars of both Top charts
Bars == Range(dashboard.chartServices) \cup Range(dashboard.chartRegions)

Columns ==
    << <<"s", "e", "r", "v", "i", "c", "e">>, <<"t", "y", "p", "e">>, <<"i", "d">>,
       <<"n", "a", "m", "e">>, <<"r", "e", "g", "i", "o", "n">>, <<"a", "r", "n">>,
       <<"i", "s", "_", "d", "e", "f", "a", "u", "l", "t">>, <<"t", "a", "g", "s">> >>

\* C28: format_csv writes, for every record list, the header service, type,
\* id, name, region, arn, is_default, tags and then one row of eight fields
\* for each resource, in input order (the row of a resource holds its id and
\* its type); for the empty list it writes the header and no row.
C28_HeaderAndOneRowEach ==
    (call.fn = "format_csv" /\ result.stage = "returned") =>
        LET res == call.data.resources
            lines == result.out.lines
        IN  /\ Len(lines) = 1 + Len(res)
            /\ lines[1].fields = Columns
            /\ \A i \in 1..Len(res) :
                   /\ Len(lines[i + 1].fields) = 8
                   /\ lines[i + 1].fields[3] = res[i].id.s
                   /\ lines[i + 1].fields[2] = res[i].type.s

\* the dump of seven records was written, the last without a service
C28_Witness ==
    /\ call.fn = "format_csv"
    /\ result.stage = "returned"
    /\ Len(call.data.resources) = 7
    /\ call.data.resources[7].service = Absent
    /\ Len(result.out.lines) = 8
    /\ result.out.lines[8].fields[1] = <<>>

\* the row is open because a filter pass auto-expanded it
AutoExpandedRow(i) ==
    /\ doc[i].hasDetails
    /\ rowState[i].autoExpanded
    /\ rowState[i].expanded

\* the search text is not empty and the detail text of the row contains it
DetailMatch(i, text) == text # <<>> /\ DetailsContain(i, text)

\* C29: after every filter pass, a row that an earlier pass auto-expanded and
\* whose detail text does not contain the search text of this pass is
\* collapsed and has autoExpanded cleared, whether this pass shows the row
\* or hides it.
C29_NoMatchCollapsesAutoExpanded ==
    [][FilterPass =>
        \A i \in 1..Len(doc) :
            (AutoExpandedRow(i) /\ ~DetailMatch(i, searchBox')) =>
                /\ ~rowState'[i].expanded
                /\ rowState'[i].detailCollapsed
                /\ ~rowState'[i].autoExpanded]_vars

\* C30: a filter pass with a service filter set hides every section of
\* another service and leaves the rest of it as it was: the count label of
\* the section and, for each of its rows, the hidden flag, the expanded and
\* autoExpanded flags and the highlight marks.
C30_OtherSectionsUntouched ==
    [][(FilterPass /\ serviceFilter' # <<>>) =>
        \A svc \in DOMAIN sectionState :
            svc # serviceFilter' =>
                /\ sectionState'[svc].hidden
                /\ sectionState'[svc].count = sectionState[svc].count
                /\ \A i \in SectionRows(doc, svc) : rowState'[i] = rowState[i]]_vars

\* a pass with a service filter has hidden the section of another service
\* whose row still is not hidden, is auto-expanded and carries marks
C30_Witness ==
    /\ serviceFilter # <<>>
    /\ pendingTimers = 0
    /\ \E i \in 1..Len(doc) :
          /\ doc[i].service # serviceFilter
          /\ sectionState[doc[i].service].hidden
          /\ ~rowState[i].hidden
          /\ rowState[i].marks
          /\ rowState[i].autoExpanded
          /\ rowState[i].expanded

\* C31: in every state, whatever filter passes, clicks on rows, Expand All
\* and Collapse All came before, a row with a details-row carries the class
\* expanded iff its details-row does not carry collapsed, and its
\* details-row carries hidden iff the row does.
C31_DetailRowFollowsRow ==
    \A i \in 1..Len(doc) :
        doc[i].hasDetails =>
            /\ rowState[i].expanded <=> ~rowState[i].detailCollapsed
            /\ rowState[i].detailHidden <=> rowState[i].hidden

\* a row that was opened is hidden by a filter pass together with its
\* details-row, still open, while another row with details is shown closed
C31_Witness ==
    /\ \E i \in 1..Len(doc) :
          /\ doc[i].hasDetails
          /\ rowState[i].hidden
          /\ rowState[i].detailHidden
          /\ rowState[i].expanded
          /\ ~rowState[i].detailCollapsed
    /\ \E j \in 1..Len(doc) :
          /\ doc[j].hasDetails
          /\ ~rowState[j].hidden
          /\ ~rowState[j].detailHidden
          /\ ~rowState[j].expanded
          /\ rowState[j].detailCollapsed

\* the rows whose record carries the tag pair (key, value)
Carrying(key, value) ==
    {i \in 1..Len(doc) :
        \E k \in 1..Len(RecordOf(i).tags) : RecordOf(i).tags[k] = <<key, value>>}

\* the tag filter is the only filter set
OnlyTagFilter(fs) ==
    fs.tag # <<>> /\ fs.search = <<>> /\ fs.service = <<>> /\ fs.region = <<>>

\* C32: whatever the resource list, once an option of the tag filter has
\* been selected with the search text, the service filter and the region
\* filter empty, the rows displayed are exactly the rows of the records that
\* carry the (key, value) pair the option was written for, and there is at
\* least one, also when the key or the value contains "|" or "=".
C32_TagOptionSelectsItsRecords ==
    [][((\E value \in options.tag : SelectTag(value)) /\ OnlyTagFilter(FilterState')) =>
        \A n \in 1..Len(TagOptionList(resources)) :
            TagOptionList(resources)[n].option = tagFilter' =>
                /\ DisplayedIn(rowState', sectionState') =
                       Carrying(TagOptionList(resources)[n].key,
                                TagOptionList(resources)[n].value)
                /\ DisplayedIn(rowState', sectionState') # {}]_vars

\* C33 as stated: however search edits and selections interleave, a pending
\* timeout of debouncedFilter leads to a state with none pending (it fires),
\* and in every state with no timeout pending the rows displayed are the
\* rows that satisfy the four predicates under the current search text and
\* selections.
C33_EveryTimerFires ==
    /\ (pendingTimers > 0) ~> (pendingTimers = 0)
    /\ [](pendingTimers = 0 => DisplayedRows = Satisfying(FilterState))

\* C33: however search edits and selections interleave, a pending timeout of
\* debouncedFilter fires unless a later search edit cancels it: either the
\* search edits never stop or from some state on no timeout is pending; and
\* in every state with no timeout pending the rows displayed are the rows
\* that satisfy the four predicates under the current search text and
\* selections.
C33_TimerFiresUnlessReplaced ==
    /\ []<><<SearchEdit>>_vars \/ <>[](pendingTimers = 0)
    /\ [](pendingTimers = 0 => DisplayedRows = Satisfying(FilterState))

\* the timeout of a search edit has fired with a selection in force: a text
\* is in the search box, a region is selected, no timeout is pending, and
\* the pass has hidden one row and displays another
C33_Witness ==
    /\ pendingTimers = 0
    /\ searchBox # <<>>
    /\ regionFilter # <<>>
    /\ DisplayedRows # {}
    /\ DisplayedRows # 1..Len(doc)

====
